---- MODULE Spec2Model ----
(***************************************************************************)
(* Model of sd_jwt/operations.py: issuance (create_sd_jwt_and_svc),        *)
(* release construction (create_release_jwt) and verification (verify)     *)
(* of selectively disclosable claims.                                      *)
(*                                                                         *)
(* Python values are represented as follows.                               *)
(*   - An optional argument is a sequence of length 0 (None) or 1.         *)
(*   - A claim tree node is Leaf(v) or Dict(f), f a function on its keys.  *)
(*   - A JSON text (the raw disclosure entry) is a record naming the kind  *)
(*     of JSON value it parses to; Garbage does not parse.                 *)
(*   - SHA-256 is collision free: hash_raw(t) is the record [sha256|->t].  *)
(*   - A string is split at "." into its segments; a compact token is the  *)
(*     sequence of its three segments.                                     *)
(*   - A raised exception is Error(kinds): the walk over a dict stops at   *)
(*     the first failing key in the dict's own order, which is an input,   *)
(*     so kinds holds every failure some key order surfaces.               *)
(***************************************************************************)
EXTENDS Integers, Sequences, FiniteSets, TLC

VARIABLES issued, released, verified

vars == <<issued, released, verified>>

-----------------------------------------------------------------------------
(* Bounds of the model *)

MaxSalt == 2
MaxTime == 2

(* Program constants *)

DEFAULT_EXP_MINS == 15
DEFAULT_SIGNIGN_ALG == "ES256"
SD_CLAIMS_KEY == "sd_claims"

-----------------------------------------------------------------------------
(* Python values *)

None == <<>>
Some(x) == <<x>>

\* Python truthiness of an optional string / optional int
TruthyStr(o) == o # None /\ o[1] # ""
TruthyInt(o) == o # None /\ o[1] # 0
TruthyKey(o) == o # None

Leaf(v) == [tag |-> "leaf", val |-> v]
Dict(f) == [tag |-> "dict", kv |-> f]
EmptyDict == Dict(<<>>)
Absent == [tag |-> "absent"]
Error(kinds) == [tag |-> "error", kinds |-> kinds]

IsDict(n) == n.tag = "dict"
IsLeaf(n) == n.tag = "leaf"
IsError(n) == n.tag = "error"

\* structure.get(k) / structure.get(k, {})
Get(structure, k) ==
    IF IsDict(structure) /\ k \in DOMAIN structure.kv THEN structure.kv[k] ELSE Absent

-----------------------------------------------------------------------------
(* JSON texts of disclosure entries *)

JsonArray(elems) == [json |-> "array", elems |-> elems]
JsonString(s) == [json |-> "string", elems |-> <<s>>]
Garbage == [json |-> "invalid", elems |-> <<>>]
\* JSON null in a payload: Python None where a raw entry is expected
NullEntry == [json |-> "null", elems |-> <<>>]

\* json.dumps([salt, value])
dumps_pair(salt, value) == JsonArray(<<salt, value>>)

hash_raw(raw) == [sha256 |-> raw]

hash_claim(salt, value, return_raw) ==
    IF return_raw THEN dumps_pair(salt, value) ELSE hash_raw(dumps_pair(salt, value))

_create_sd_claim_entry(key, value, salt) == hash_claim(salt, value, FALSE)

_create_svc_entry(key, value, salt) == hash_claim(salt, value, TRUE)

\* lambda _, __, raw: raw  (create_release_jwt); an absent third argument is None
release_entry(key, value, raw) == IF raw = Absent THEN Leaf(NullEntry) ELSE raw

\* _check_claim returning element 0 (the salt) of the decoded entry
_check_claim_returns_salt(claim_name, released_value, sd_jwt_claim_value) ==
    IF released_value = NullEntry
    THEN Error({"AttributeError"})
    ELSE IF sd_jwt_claim_value = Absent
    THEN Error({"StructureMismatch"})
    ELSE IF hash_raw(released_value) # sd_jwt_claim_value.val
    THEN Error({"CommitmentMismatch"})
    ELSE IF released_value.json # "array" \/ Len(released_value.elems) # 2
    THEN Error({"MalformedDisclosure"})
    ELSE Leaf(released_value.elems[1])

\* _check_claim parsing the entry before it compares the hash
_check_claim_parses_first(claim_name, released_value, sd_jwt_claim_value) ==
    IF released_value = NullEntry
    THEN Error({"AttributeError"})
    ELSE IF released_value.json # "array" \/ Len(released_value.elems) # 2
    THEN Error({"MalformedDisclosure"})
    ELSE IF sd_jwt_claim_value = Absent
    THEN Error({"StructureMismatch"})
    ELSE IF hash_raw(released_value) # sd_jwt_claim_value.val
    THEN Error({"CommitmentMismatch"})
    ELSE Leaf(released_value.elems[2])

_check_claim(claim_name, released_value, sd_jwt_claim_value) ==
    IF released_value = NullEntry
    THEN Error({"AttributeError"})              \* None has no encode()
    ELSE IF sd_jwt_claim_value = Absent
    THEN Error({"StructureMismatch"})           \* compare_digest(str, None)
    ELSE IF hash_raw(released_value) # sd_jwt_claim_value.val
    THEN Error({"CommitmentMismatch"})
    ELSE IF released_value.json = "invalid"
    THEN Error({"MalformedDisclosure"})         \* loads() fails
    ELSE IF released_value.json # "array"
    THEN Error({"MalformedDisclosure"})         \* not a list
    ELSE IF Len(released_value.elems) # 2
    THEN Error({"MalformedDisclosure"})         \* not of length 2
    ELSE Leaf(released_value.elems[2])

-----------------------------------------------------------------------------
(* sd_jwt.walk.by_structure *)

\* the value of a leaf whose salt generate_salt() is still to draw
FreshSalt == "<generate_salt()>"

\* the leaf callbacks the operations pass to the walk
ApplyFn(fn, key, value, third) ==
    CASE fn = "salt"    -> Leaf(FreshSalt)
      [] fn = "sd"      -> Leaf(_create_sd_claim_entry(key, value, third.val))
      [] fn = "svc"     -> Leaf(_create_svc_entry(key, value, third.val))
      [] fn = "release" -> release_entry(key, value, third)
      [] fn = "check"   -> _check_claim(key, value, third)

RECURSIVE walk_by_structure(_, _, _)
walk_by_structure(structure, data, fn) ==
    LET r == [k \in DOMAIN data.kv |->
                LET d == data.kv[k]
                    s == Get(structure, k)
                IN  IF IsDict(d)
                    THEN IF IsLeaf(s)
                         THEN Error({"StructureMismatch"})
                         ELSE walk_by_structure(IF s = Absent THEN EmptyDict ELSE s, d, fn)
                    ELSE IF IsDict(s)
                         THEN Error({"StructureMismatch"})
                         ELSE ApplyFn(fn, k, d.val, s)]
        failed == {k \in DOMAIN r : IsError(r[k])}
    IN  IF failed = {} THEN Dict(r)
        ELSE Error(UNION {r[k].kinds : k \in failed})

-----------------------------------------------------------------------------
(* Salts *)

SaltNames == <<"salt1", "salt2", "salt3", "salt4">>
Salts == {SaltNames[i] : i \in 1..MaxSalt}

\* every function on DOMAIN sets that takes at each k a member of sets[k]
Product(sets) ==
    {f \in [DOMAIN sets -> UNION {sets[k] : k \in DOMAIN sets}] :
        \A k \in DOMAIN sets : f[k] \in sets[k]}

\* the trees generate_salt() can make of a walked shape: one draw for each leaf
RECURSIVE generate_salt(_)
generate_salt(shape) ==
    IF IsLeaf(shape) THEN {Leaf(s) : s \in Salts}
    ELSE {Dict(f) : f \in Product([k \in DOMAIN shape.kv |-> generate_salt(shape.kv[k])])}

-----------------------------------------------------------------------------
(* Keys and compact JWS tokens (jwcrypto) *)

IssuerKey == "issuer_key"
HolderKey == "holder_key"
OtherKey == "other_key"

\* JWK.export_public(as_dict=True) and JWK.from_json(dumps(d))
export_public(key) == [kty |-> "EC", kid |-> key]
from_json(d) == d.kid

\* A string is the sequence of its pieces: Dot is the character ".", any
\* other piece is a base64url run that holds no "."
Dot == [seg |-> "."]

\* str.split(".")
RECURSIVE split(_)
split(str) ==
    IF \A i \in 1..Len(str) : str[i] # Dot
    THEN <<str>>
    ELSE LET i == CHOOSE j \in 1..Len(str) :
                     str[j] = Dot /\ \A h \in 1..(j - 1) : str[h] # Dot
         IN  <<SubSeq(str, 1, i - 1)>> \o split(SubSeq(str, i + 1, Len(str)))

\* ".".join(parts)
RECURSIVE join(_)
join(parts) ==
    IF Len(parts) = 0 THEN <<>>
    ELSE IF Len(parts) = 1 THEN parts[1]
    ELSE parts[1] \o <<Dot>> \o join(Tail(parts))

\* JWS(payload).add_signature(key, alg, protected).serialize(compact=True)
serialize(payload, key) ==
    << [seg |-> "protected", alg |-> DEFAULT_SIGNIGN_ALG], Dot,
       [seg |-> "payload", json |-> payload], Dot,
       [seg |-> "signature", by |-> key, alg |-> DEFAULT_SIGNIGN_ALG, over |-> payload] >>

\* JWS.deserialize(token): three segments, each of which decodes
deserializes(token) ==
    LET parts == split(token)
    IN  /\ Len(parts) = 3
        /\ \A i \in 1..3 : Len(parts[i]) = 1
        /\ parts[1][1].seg = "protected"
        /\ parts[2][1].seg = "payload"
        /\ parts[3][1].seg = "signature"

\* JWS.payload of a deserialized token
payload_of(token) == split(token)[2][1].json

\* JWS.verify(key, alg) of a deserialized token
signature_valid(token, key) ==
    LET parts == split(token)
    IN  /\ parts[1][1].alg = DEFAULT_SIGNIGN_ALG
        /\ parts[3][1].alg = parts[1][1].alg
        /\ parts[3][1].by = key
        /\ parts[3][1].over = parts[2][1].json

\* urlsafe_b64encode(dumps(p).encode()).decode().strip("=") and its inverse
\* loads(urlsafe_b64decode(s + "=="))
b64encode_json(p) == [b64 |-> p]
b64decode_json(s) == s.b64

-----------------------------------------------------------------------------
(* create_sd_jwt_and_svc *)

create_sd_jwt_and_svc(user_claims, issuer, issuer_key, holder_key, claim_structure, iat, exp, utcnow, salts) ==
    LET _iat == IF TruthyInt(iat) THEN iat[1] ELSE utcnow
        _exp == IF TruthyInt(exp) THEN exp[1] ELSE _iat + (DEFAULT_EXP_MINS * 60)
        sd_jwt_payload ==
            ("iss" :> issuer) @@ ("sub_jwk" :> export_public(holder_key)) @@
            ("iat" :> _iat) @@ ("exp" :> _exp) @@
            (SD_CLAIMS_KEY :> walk_by_structure(salts, user_claims, "sd"))
        svc_payload == (SD_CLAIMS_KEY :> walk_by_structure(salts, user_claims, "svc"))
    IN  IF IsError(salts)
        THEN [status |-> "StructureMismatch"]
        ELSE [status |-> "ok",
              sd_jwt_payload |-> sd_jwt_payload,
              serialized_sd_jwt |-> serialize(sd_jwt_payload, issuer_key),
              svc_payload |-> svc_payload,
              serialized_svc |-> b64encode_json(svc_payload)]

\* the salt trees the first walk of create_sd_jwt_and_svc can return
salt_walk(claim_structure, user_claims) ==
    LET shape == walk_by_structure(claim_structure, user_claims, "salt")
    IN  IF IsError(shape) THEN {shape} ELSE generate_salt(shape)

-----------------------------------------------------------------------------
(* create_release_jwt *)

create_release_jwt(nonce, aud, disclosed_claims, serialized_svc, holder_key) ==
    LET hash_raw_values == b64decode_json(serialized_svc)[SD_CLAIMS_KEY]
        sd_claims == walk_by_structure(hash_raw_values, disclosed_claims, "release")
        sd_jwt_release_payload ==
            ("nonce" :> nonce) @@ ("aud" :> aud) @@ (SD_CLAIMS_KEY :> sd_claims)
    IN  IF IsError(sd_claims)
        THEN [status |-> "StructureMismatch"]
        ELSE [status |-> "ok",
              sd_jwt_release_payload |-> sd_jwt_release_payload,
              serialized_sd_jwt_release |-> serialize(sd_jwt_release_payload, holder_key)]

-----------------------------------------------------------------------------
(* verify *)

Fail(kind, stages) == [status |-> kind, stages |-> stages]

\* _verify_sd_jwt comparing the issuer before it verifies the signature
_verify_sd_jwt_issuer_first(sd_jwt, issuer_public_key, expected_issuer) ==
    IF ~deserializes(sd_jwt)
    THEN Fail("InvalidJWSObject", <<"sd_deserialize">>)
    ELSE LET sd_jwt_payload == payload_of(sd_jwt)
             done == <<"sd_deserialize", "sd_issuer", "sd_signature">>
         IN  IF "iss" \notin DOMAIN sd_jwt_payload
             THEN Fail("KeyError", <<"sd_deserialize", "sd_issuer">>)
             ELSE IF sd_jwt_payload["iss"] # expected_issuer
             THEN Fail("InvalidIssuer", <<"sd_deserialize", "sd_issuer">>)
             ELSE IF ~signature_valid(sd_jwt, issuer_public_key)
             THEN Fail("SignatureInvalid", done)
             ELSE IF SD_CLAIMS_KEY \notin DOMAIN sd_jwt_payload
             THEN Fail("MissingCommitments", done \o <<"sd_commitments">>)
             ELSE [status |-> "ok",
                   stages |-> done \o <<"sd_commitments">>,
                   sd_claims |-> sd_jwt_payload[SD_CLAIMS_KEY],
                   holder_public_key_payload |->
                       IF "sub_jwk" \in DOMAIN sd_jwt_payload
                       THEN Some(sd_jwt_payload["sub_jwk"]) ELSE None]

_verify_sd_jwt(sd_jwt, issuer_public_key, expected_issuer) ==
    IF ~deserializes(sd_jwt)
    THEN Fail("InvalidJWSObject", <<"sd_deserialize">>)
    ELSE IF ~signature_valid(sd_jwt, issuer_public_key)
    THEN Fail("SignatureInvalid", <<"sd_deserialize", "sd_signature">>)
    ELSE LET sd_jwt_payload == payload_of(sd_jwt)
             done == <<"sd_deserialize", "sd_signature", "sd_issuer">>
         IN  IF "iss" \notin DOMAIN sd_jwt_payload
             THEN Fail("KeyError", done)
             ELSE IF sd_jwt_payload["iss"] # expected_issuer
             THEN Fail("InvalidIssuer", done)
             ELSE IF SD_CLAIMS_KEY \notin DOMAIN sd_jwt_payload
             THEN Fail("MissingCommitments", done \o <<"sd_commitments">>)
             ELSE [status |-> "ok",
                   stages |-> done \o <<"sd_commitments">>,
                   sd_claims |-> sd_jwt_payload[SD_CLAIMS_KEY],
                   holder_public_key_payload |->
                       IF "sub_jwk" \in DOMAIN sd_jwt_payload
                       THEN Some(sd_jwt_payload["sub_jwk"]) ELSE None]

\* _verify_sd_jwt_release without the comparison of the nonce
_verify_sd_jwt_release_no_nonce(sd_jwt_release, holder_public_key, expected_aud, expected_nonce, holder_public_key_payload) ==
    LET bound == TruthyKey(holder_public_key)
        s1 == <<"release_deserialize">>
        s2 == IF bound /\ holder_public_key_payload # None
              THEN s1 \o <<"release_holder_key">> ELSE s1
        s3 == IF bound THEN s2 \o <<"release_signature">> ELSE s2
        s4 == IF bound THEN s3 \o <<"release_audience">> ELSE s3
        s5 == IF bound THEN s4 \o <<"release_nonce">> ELSE s4
        s6 == s5 \o <<"release_commitments">>
    IN  IF ~deserializes(sd_jwt_release)
        THEN Fail("InvalidJWSObject", s1)
        ELSE IF /\ bound
                /\ holder_public_key_payload # None
                /\ holder_public_key[1] # from_json(holder_public_key_payload[1])
        THEN Fail("HolderKeyMismatch", s2)
        ELSE IF bound /\ ~signature_valid(sd_jwt_release, holder_public_key[1])
        THEN Fail("SignatureInvalid", s3)
        ELSE LET sd_jwt_release_payload == payload_of(sd_jwt_release)
             IN  IF bound /\ "aud" \notin DOMAIN sd_jwt_release_payload
                 THEN Fail("KeyError", s4)
                 ELSE IF bound /\ Some(sd_jwt_release_payload["aud"]) # expected_aud
                 THEN Fail("InvalidAudience", s4)
                 ELSE IF SD_CLAIMS_KEY \notin DOMAIN sd_jwt_release_payload
                 THEN Fail("MissingCommitments", s6)
                 ELSE [status |-> "ok", stages |-> s6,
                       sd_claims |-> sd_jwt_release_payload[SD_CLAIMS_KEY]]

_verify_sd_jwt_release(sd_jwt_release, holder_public_key, expected_aud, expected_nonce, holder_public_key_payload) ==
    LET bound == TruthyKey(holder_public_key)
        s1 == <<"release_deserialize">>
        s2 == IF bound /\ holder_public_key_payload # None
              THEN s1 \o <<"release_holder_key">> ELSE s1
        s3 == IF bound THEN s2 \o <<"release_signature">> ELSE s2
        s4 == IF bound THEN s3 \o <<"release_audience">> ELSE s3
        s5 == IF bound THEN s4 \o <<"release_nonce">> ELSE s4
        s6 == s5 \o <<"release_commitments">>
    IN  IF ~deserializes(sd_jwt_release)
        THEN Fail("InvalidJWSObject", s1)
        ELSE IF /\ bound
                /\ holder_public_key_payload # None
                /\ holder_public_key[1] # from_json(holder_public_key_payload[1])
        THEN Fail("HolderKeyMismatch", s2)
        ELSE IF bound /\ ~signature_valid(sd_jwt_release, holder_public_key[1])
        THEN Fail("SignatureInvalid", s3)
        ELSE LET sd_jwt_release_payload == payload_of(sd_jwt_release)
             IN  IF bound /\ "aud" \notin DOMAIN sd_jwt_release_payload
                 THEN Fail("KeyError", s4)
                 ELSE IF bound /\ Some(sd_jwt_release_payload["aud"]) # expected_aud
                 THEN Fail("InvalidAudience", s4)
                 ELSE IF bound /\ "nonce" \notin DOMAIN sd_jwt_release_payload
                 THEN Fail("KeyError", s5)
                 ELSE IF bound /\ Some(sd_jwt_release_payload["nonce"]) # expected_nonce
                 THEN Fail("InvalidNonce", s5)
                 ELSE IF SD_CLAIMS_KEY \notin DOMAIN sd_jwt_release_payload
                 THEN Fail("MissingCommitments", s6)
                 ELSE [status |-> "ok", stages |-> s6,
                       sd_claims |-> sd_jwt_release_payload[SD_CLAIMS_KEY]]

\* the argument check refusing only a call that lacks both aud and nonce
binding_arguments_missing_both(holder_public_key, expected_aud, expected_nonce) ==
    TruthyKey(holder_public_key)
    /\ (~TruthyStr(expected_aud) /\ ~TruthyStr(expected_nonce))

binding_arguments_missing(holder_public_key, expected_aud, expected_nonce) ==
    TruthyKey(holder_public_key)
    /\ (~TruthyStr(expected_aud) \/ ~TruthyStr(expected_nonce))

\* a presentation too short is refused, a longer one is not
wrong_number_of_parts_short(parts) == Len(parts) < 6

wrong_number_of_parts(parts) == Len(parts) # 6

\* the results verify can give: one, unless several released entries fail the
\* final walk, where the order of the release payload's keys picks the first
verify(combined_presentation, issuer_public_key, expected_issuer, holder_public_key, expected_aud, expected_nonce) ==
    IF binding_arguments_missing(holder_public_key, expected_aud, expected_nonce)
    THEN {Fail("InvalidArguments", <<"arguments">>)}
    ELSE
    LET parts == split(combined_presentation)
        t1 == <<"arguments", "split">>
    IN  IF wrong_number_of_parts(parts)
        THEN {Fail("MalformedPresentation", t1)}
        ELSE
        LET input_sd_jwt == join(SubSeq(parts, 1, 3))
            sd == _verify_sd_jwt(input_sd_jwt, issuer_public_key, expected_issuer)
            t2 == t1 \o sd.stages
        IN  IF sd.status # "ok"
            THEN {Fail(sd.status, t2)}
            ELSE
            LET input_sd_jwt_release == join(SubSeq(parts, 4, 6))
                rel == _verify_sd_jwt_release(input_sd_jwt_release,
                           holder_public_key, expected_aud, expected_nonce,
                           sd.holder_public_key_payload)
                t3 == t2 \o rel.stages
            IN  IF rel.status # "ok"
                THEN {Fail(rel.status, t3)}
                ELSE
                LET claims == walk_by_structure(sd.sd_claims, rel.sd_claims, "check")
                    t4 == t3 \o <<"check_claims">>
                IN  IF IsError(claims)
                    THEN {Fail(kind, t4) : kind \in claims.kinds}
                    ELSE {[status |-> "ok", stages |-> t4, claims |-> claims]}

-----------------------------------------------------------------------------
(* Trees: paths, and the edits a sender can make to a payload *)

RECURSIVE LeafPaths(_)
LeafPaths(tree) ==
    IF ~IsDict(tree) THEN {<<>>}
    ELSE UNION {{<<k>> \o q : q \in LeafPaths(tree.kv[k])} : k \in DOMAIN tree.kv}

\* every path of the tree: its leaves and its (possibly empty) branches
RECURSIVE Paths(_)
Paths(tree) ==
    IF ~IsDict(tree) THEN {<<>>}
    ELSE {<<>>} \cup
         UNION {{<<k>> \o q : q \in Paths(tree.kv[k])} : k \in DOMAIN tree.kv}

RECURSIVE At(_, _)
At(tree, path) ==
    IF path = <<>> THEN tree ELSE At(Get(tree, Head(path)), Tail(path))

RECURSIVE Put(_, _, _)
Put(tree, path, node) ==
    IF path = <<>> THEN node
    ELSE LET k == Head(path)
         IN  Dict((k :> Put(Get(tree, k), Tail(path), node)) @@ tree.kv)

Drop(f, k) == [x \in DOMAIN f \ {k} |-> f[x]]
With(f, k, v) == (k :> v) @@ f

-----------------------------------------------------------------------------
(* Inputs *)

ClaimValues == {"abc", "X"}
Issuer == "https://issuer"
OtherIssuer == "https://other"
Audience == "https://verifier"
OtherAudience == "https://elsewhere"
Nonce == "nonce1"
OtherNonce == "nonce2"

ClaimTree(v1, v2) == Dict(("sub" :> Leaf(v1)) @@ ("address" :> Dict("city" :> Leaf(v2))))

UserClaims ==
    {ClaimTree(v1, v2) : v1, v2 \in ClaimValues}
    \cup {Dict("sub" :> Leaf(v)) : v \in ClaimValues}

ClaimStructures ==
    { EmptyDict,
      Dict("address" :> EmptyDict),
      Dict("address" :> Leaf("")) }

Times == 0..MaxTime
OptTimes == {None} \cup {Some(t) : t \in Times}

\* disclosed_claims: the sub-trees of a claim tree, with any placeholder values
Placeholders == {"", "X"}
SubTrees ==
    LET nodes == [k \in {"sub", "address"} |->
                    IF k = "sub" THEN {Leaf(v) : v \in Placeholders}
                    ELSE {EmptyDict} \cup {Dict("city" :> Leaf(v)) : v \in Placeholders}]
    IN  UNION {{Dict(f) : f \in Product([k \in K |-> nodes[k]])} :
                 K \in SUBSET {"sub", "address"}}

\* disclosed_claims that name a key the container lacks, or nest differently
StrayTrees ==
    { Dict("email" :> Leaf("")),
      Dict(("sub" :> Leaf("")) @@ ("email" :> Leaf(""))),
      Dict("address" :> Dict("zip" :> Leaf(""))),
      Dict("address" :> Dict(("city" :> Leaf("")) @@ ("zip" :> Leaf("")))),
      Dict("address" :> Leaf("")),
      Dict("sub" :> Dict("x" :> Leaf(""))) }

OptKeys == {None, Some(HolderKey), Some(OtherKey)}
OptAudiences == {None, Some(""), Some(Audience), Some(OtherAudience)}
OptNonces == {None, Some(""), Some(Nonce), Some(OtherNonce)}

\* the texts a sender can put in place of a raw disclosure entry
TamperTexts(raw) ==
    IF raw.json # "array" \/ Len(raw.elems) # 2 THEN {Garbage}
    ELSE LET salt == raw.elems[1]
             value == raw.elems[2]
         IN  {JsonArray(<<salt, v>>) : v \in ClaimValues \ {value}}
             \cup {JsonArray(<<t, value>>) : t \in Salts \ {salt}}
             \cup {JsonArray(<<salt>>), JsonArray(<<salt, value, value>>),
                   JsonString(value), Garbage}

\* a token whose payload was edited: signed anew by a key, or ("kept") left
\* with the signature of the original payload
Resign(token, payload, signer) ==
    IF signer = "kept"
    THEN [token EXCEPT ![3] = [seg |-> "payload", json |-> payload]]  \* piece 3 of 5
    ELSE serialize(payload, signer)

SdEdits == {"same", "other_iss", "no_iss", "no_sd_claims", "no_sub_jwk", "other_sub_jwk"}

SdEdit(payload, edit) ==
    CASE edit = "same"          -> payload
      [] edit = "other_iss"     -> With(payload, "iss", OtherIssuer)
      [] edit = "no_iss"        -> Drop(payload, "iss")
      [] edit = "no_sd_claims"  -> Drop(payload, SD_CLAIMS_KEY)
      [] edit = "no_sub_jwk"    -> Drop(payload, "sub_jwk")
      [] edit = "other_sub_jwk" -> With(payload, "sub_jwk", export_public(OtherKey))

\* the SD tokens a verifier can be handed in place of the issued one
SdTokens(token) ==
    {Resign(token, SdEdit(payload_of(token), e), k) :
        e \in SdEdits, k \in {IssuerKey, OtherKey, "kept"}}

ReleaseEdits ==
    [aud : {"same", "other", "absent"}, nonce : {"same", "other"},
     sd_claims : {"same", "absent"}]

ReleaseEdit(payload, edit) ==
    LET p1 == CASE edit.aud = "same" -> payload
                [] edit.aud = "other" -> With(payload, "aud", OtherAudience)
                [] edit.aud = "absent" -> Drop(payload, "aud")
        p2 == IF edit.nonce = "same" THEN p1 ELSE With(p1, "nonce", OtherNonce)
    IN  IF edit.sd_claims = "same" THEN p2 ELSE Drop(p2, SD_CLAIMS_KEY)

\* the Release tokens with another audience, nonce or no entries at all
ReleaseTokens(token) ==
    {Resign(token, ReleaseEdit(payload_of(token), e), k) :
        e \in ReleaseEdits, k \in {HolderKey, OtherKey}}

\* the Release tokens with one raw entry replaced, or one entry added at a
\* path the issuer made no commitment for; the holder signs them
TamperedTokens(token) ==
    LET payload == payload_of(token)
        tree == payload[SD_CLAIMS_KEY]
        leaves == {q \in LeafPaths(tree) : q # <<>>}
    IN  UNION {{serialize(With(payload, SD_CLAIMS_KEY, Put(tree, q, Leaf(t))),
                              HolderKey) : t \in TamperTexts(At(tree, q).val)} :
                     q \in leaves}
        \cup {serialize(With(payload, SD_CLAIMS_KEY,
                             Put(tree, <<"email">>, Leaf(JsonArray(<<"salt1", "X">>)))),
                        HolderKey)}

\* SD Token + "." + Release Token
Combined(sd_jwt, release) == sd_jwt \o <<Dot>> \o release

\* the same with a segment cut or added, or nothing at all
Missegmented(str) ==
    { SubSeq(str, 1, Len(str) - 2),
      str \o <<Dot, [seg |-> "extra"]>>,
      str \o <<Dot>>,
      <<>>,
      SubSeq(str, 1, 5) }

\* a string whose first segment does not decode
Garbled(str) == [str EXCEPT ![1] = [seg |-> "garbage"]]

NoCall == [op |-> "none"]

-----------------------------------------------------------------------------
(* A behaviour is one session: an issuance, a release built from what it    *)
(* returned, and the verification of a presentation made of the two tokens. *)

Init ==
    /\ issued = NoCall
    /\ released = NoCall
    /\ verified = NoCall

Issue(claims, structures, iats, exps) ==
    \E user_claims \in claims, claim_structure \in structures,
       iat \in iats, exp \in exps, utcnow \in 1..MaxTime :
      \E salts \in salt_walk(claim_structure, user_claims) :
        /\ issued = NoCall
        /\ issued' = [op |-> "issue",
                      user_claims |-> user_claims, issuer |-> Issuer,
                      claim_structure |-> claim_structure,
                      iat |-> iat, exp |-> exp,
                      out |-> create_sd_jwt_and_svc(user_claims, Issuer,
                                 IssuerKey, HolderKey, claim_structure,
                                 iat, exp, utcnow, salts)]
        /\ UNCHANGED <<released, verified>>

Release(chosen) ==
    /\ issued # NoCall
    /\ issued.out.status = "ok"
    /\ released = NoCall
    /\ \E disclosed_claims \in chosen :
         released' = [op |-> "release",
                      nonce |-> Nonce, aud |-> Audience,
                      disclosed_claims |-> disclosed_claims,
                      out |-> create_release_jwt(Nonce, Audience, disclosed_claims,
                                 issued.out.serialized_svc, HolderKey)]
    /\ UNCHANGED <<issued, verified>>

Verify(presentations, holder_keys, audiences, nonces) ==
    /\ released # NoCall
    /\ released.out.status = "ok"
    /\ verified = NoCall
    /\ \E combined_presentation \in presentations,
          holder_public_key \in holder_keys,
          expected_aud \in audiences, expected_nonce \in nonces :
         \E result \in verify(combined_presentation, IssuerKey, Issuer,
                              holder_public_key, expected_aud, expected_nonce) :
           verified' = [op |-> "verify",
                        combined_presentation |-> combined_presentation,
                        holder_public_key |-> holder_public_key,
                        expected_aud |-> expected_aud,
                        expected_nonce |-> expected_nonce,
                        out |-> result]
    /\ UNCHANGED <<issued, released>>

\* the tokens of the session, as issued and as released
SdJwt == issued.out.serialized_sd_jwt
ReleaseJwt == released.out.serialized_sd_jwt_release

-----------------------------------------------------------------------------
(* Issuance alone, over every time argument *)

IssueAny == Issue(UserClaims, ClaimStructures, OptTimes, OptTimes)

NextIssue == IssueAny

SpecIssue == Init /\ [][NextIssue]_vars

(* Issuance and release over every disclosed_claims tree *)

IssueClaims == Issue(UserClaims, {EmptyDict}, {Some(1)}, {None})

ReleaseAny == Release(SubTrees \cup StrayTrees)

NextRelease == IssueClaims \/ ReleaseAny

SpecRelease == Init /\ [][NextRelease]_vars

(* A whole session with the presentation as released, or with one entry     *)
(* altered                                                                 *)

VerifyPresented ==
    Verify({Combined(SdJwt, ReleaseJwt)}
             \cup {Combined(SdJwt, t) : t \in TamperedTokens(ReleaseJwt)},
           {None, Some(HolderKey)}, {None, Some(Audience)}, {None, Some(Nonce)})

NextPresent == IssueClaims \/ ReleaseAny \/ VerifyPresented

SpecPresent == Init /\ [][NextPresent]_vars

(* A session of one claim tree, over the tokens and arguments a verifier    *)
(* can be handed                                                           *)

IssueOne == Issue({ClaimTree("abc", "X")}, {EmptyDict}, {Some(1)}, {None})

ReleaseOne == Release({Dict("sub" :> Leaf(""))})

VerifyAny ==
    Verify({Combined(s, r) : s \in SdTokens(SdJwt), r \in ReleaseTokens(ReleaseJwt)}
             \cup {Combined(s, Garbled(ReleaseJwt)) : s \in SdTokens(SdJwt)}
             \cup Missegmented(Combined(SdJwt, ReleaseJwt))
             \cup {Garbled(Combined(SdJwt, ReleaseJwt))},
           OptKeys, OptAudiences, OptNonces)

NextBinding == IssueOne \/ ReleaseOne \/ VerifyAny

SpecBinding == Init /\ [][NextBinding]_vars

-----------------------------------------------------------------------------
(* What the claims speak of *)

Issued == issued # NoCall /\ issued.out.status = "ok"
Released == released # NoCall
Verified == verified # NoCall

\* the trees of the session
CommitmentTree == issued.out.sd_jwt_payload[SD_CLAIMS_KEY]
DisclosureTree == issued.out.svc_payload[SD_CLAIMS_KEY]
ReleaseTree == released.out.sd_jwt_release_payload[SD_CLAIMS_KEY]

\* S has keys of C only and nests as C does
RECURSIVE SubTreeOf(_, _)
SubTreeOf(S, C) ==
    /\ IsDict(S) = IsDict(C)
    /\ IsDict(S) =>
         /\ DOMAIN S.kv \subseteq DOMAIN C.kv
         /\ \A k \in DOMAIN S.kv : SubTreeOf(S.kv[k], C.kv[k])

\* the tree with the paths of S and, at each, the value of C
RECURSIVE Restrict(_, _)
Restrict(C, S) ==
    IF IsDict(S) THEN Dict([k \in DOMAIN S.kv |-> Restrict(C.kv[k], S.kv[k])]) ELSE C

\* the verified presentation, taken apart
Parts == split(verified.combined_presentation)
SixParts == Len(Parts) = 6
PresentedSd == join(SubSeq(Parts, 1, 3))
PresentedRelease == join(SubSeq(Parts, 4, 6))
SdPayload == payload_of(PresentedSd)
ReleasePayload == payload_of(PresentedRelease)

Bound == verified.holder_public_key # None
Supplied(o) == o # None /\ o[1] # ""
ArgumentsRefused ==
    Bound /\ ~(Supplied(verified.expected_aud) /\ Supplied(verified.expected_nonce))

\* the arguments of a verification that fits the release of the session
ArgumentsFit ==
    \/ ~Bound
    \/ /\ verified.holder_public_key = Some(HolderKey)
       /\ verified.expected_aud = Some(released.aud)
       /\ verified.expected_nonce = Some(released.nonce)

\* the SD Token of the presentation passes every check made of it
SdPasses ==
    /\ deserializes(PresentedSd)
    /\ signature_valid(PresentedSd, IssuerKey)
    /\ "iss" \in DOMAIN SdPayload /\ SdPayload["iss"] = Issuer
    /\ SD_CLAIMS_KEY \in DOMAIN SdPayload

\* the holder key and signature checks of the Release Token pass
HolderPasses ==
    /\ "sub_jwk" \in DOMAIN SdPayload
    /\ SdPayload["sub_jwk"] = export_public(verified.holder_public_key[1])
    /\ signature_valid(PresentedRelease, verified.holder_public_key[1])

NoTokenExamined ==
    \A i \in 1..Len(verified.out.stages) :
        verified.out.stages[i] \in {"arguments", "split"}

NoReleaseStage ==
    \A i \in 1..Len(verified.out.stages) :
        verified.out.stages[i] \notin
            {"release_deserialize", "release_holder_key", "release_signature",
             "release_audience", "release_nonce", "release_commitments",
             "check_claims"}

-----------------------------------------------------------------------------
(* Claims *)

\* C1: round trip. Issuing C, releasing a sub-tree S of C (any placeholder
\* values) and verifying the two tokens joined by "." with the issuer's key and
\* issuer returns the tree with exactly the paths of S and the values of C.
C1_RoundTrip ==
    ( /\ Verified
      /\ verified.combined_presentation = Combined(SdJwt, ReleaseJwt)
      /\ SubTreeOf(released.disclosed_claims, issued.user_claims)
      /\ ArgumentsFit )
    => /\ verified.out.status = "ok"
       /\ verified.out.claims = Restrict(issued.user_claims, released.disclosed_claims)

\* the scenario: {sub, address:{city}} issued, address.city alone disclosed
C1_Witness ==
    /\ Verified
    /\ verified.combined_presentation = Combined(SdJwt, ReleaseJwt)
    /\ issued.user_claims = ClaimTree("abc", "X")
    /\ released.disclosed_claims = Dict("address" :> Dict("city" :> Leaf("")))
    /\ verified.out.status = "ok"
    /\ verified.out.claims = Dict("address" :> Dict("city" :> Leaf("X")))

\* C2: the release payload has a leaf at exactly the paths of chosen_claims,
\* each leaf is the raw [salt, value] entry the container stores at that path,
\* whatever the placeholder, and no raw entry of an unchosen path appears.
C2_ReleaseEntries ==
    (Released /\ released.out.status = "ok")
    => /\ Paths(ReleaseTree) = Paths(released.disclosed_claims)
       /\ LeafPaths(ReleaseTree) = LeafPaths(released.disclosed_claims)
       /\ \A q \in LeafPaths(ReleaseTree) :
            /\ IsLeaf(At(DisclosureTree, q))
            /\ At(ReleaseTree, q) = At(DisclosureTree, q)
       /\ \A q \in LeafPaths(DisclosureTree) \ LeafPaths(released.disclosed_claims) :
            (\A r \in LeafPaths(released.disclosed_claims) :
                At(DisclosureTree, r) # At(DisclosureTree, q))
            => \A r \in LeafPaths(ReleaseTree) : At(ReleaseTree, r) # At(DisclosureTree, q)

\* C3: if a disclosed raw entry differs from the raw entry committed to at its
\* path, verify fails with CommitmentMismatch and returns no claim tree, also
\* when the other entries are valid and when the altered entry does not parse.
C3_TamperDetected ==
    ( /\ Verified
      /\ SixParts
      /\ PresentedSd = SdJwt
      /\ deserializes(PresentedRelease)
      /\ signature_valid(PresentedRelease, HolderKey)
      /\ ReleasePayload["aud"] = released.aud
      /\ ReleasePayload["nonce"] = released.nonce
      /\ ArgumentsFit
      /\ LET presented == ReleasePayload[SD_CLAIMS_KEY]
         IN  /\ \A q \in LeafPaths(presented) :
                  IsLeaf(At(DisclosureTree, q)) /\ At(presented, q).val # NullEntry
             /\ \E q \in LeafPaths(presented) : At(presented, q) # At(DisclosureTree, q) )
    => /\ verified.out.status = "CommitmentMismatch"
       /\ "claims" \notin DOMAIN verified.out

\* one entry valid, the other altered to a text that does not parse
C3_Witness ==
    /\ Verified
    /\ SixParts
    /\ PresentedSd = SdJwt
    /\ ArgumentsFit
    /\ LET presented == ReleasePayload[SD_CLAIMS_KEY]
       IN  /\ LeafPaths(presented) = {<<"sub">>, <<"address", "city">>}
           /\ At(presented, <<"sub">>) = At(DisclosureTree, <<"sub">>)
           /\ At(presented, <<"address", "city">>) = Leaf(Garbage)
    /\ verified.out.status = "CommitmentMismatch"

\* C4: called with a holder_public_key (and audience and nonce), verify fails
\* with HolderKeyMismatch, and never accepts, when the SD Token payload embeds
\* another holder key and when it embeds none. Stated of the presentations
\* that pass every other check, so that no other failure stands in for it.
C4_HolderBinding ==
    ( /\ Verified
      /\ Bound /\ ~ArgumentsRefused
      /\ SixParts
      /\ SdPasses
      /\ PresentedRelease = ReleaseJwt
      /\ verified.expected_aud = Some(released.aud)
      /\ verified.expected_nonce = Some(released.nonce)
      /\ \/ "sub_jwk" \notin DOMAIN SdPayload
         \/ SdPayload["sub_jwk"] # export_public(verified.holder_public_key[1]) )
    => verified.out.status = "HolderKeyMismatch"

\* C5: with a matching holder_public_key, another audience in the release
\* fails with InvalidAudience and another nonce with InvalidNonce; with the
\* holder_public_key omitted neither is compared, and a release of any audience
\* and nonce is accepted if its disclosures open the commitments.
C5_AudienceNonce ==
    ( /\ Verified /\ SixParts /\ SdPasses /\ deserializes(PresentedRelease)
      /\ ~ArgumentsRefused )
    => /\ ( /\ Bound /\ HolderPasses
            /\ "aud" \in DOMAIN ReleasePayload
            /\ Some(ReleasePayload["aud"]) # verified.expected_aud )
          => verified.out.status = "InvalidAudience"
       /\ ( /\ Bound /\ HolderPasses
            /\ "aud" \in DOMAIN ReleasePayload
            /\ Some(ReleasePayload["aud"]) = verified.expected_aud
            /\ Some(ReleasePayload["nonce"]) # verified.expected_nonce )
          => verified.out.status = "InvalidNonce"
       /\ ( /\ ~Bound
            /\ SD_CLAIMS_KEY \in DOMAIN ReleasePayload
            /\ SdPayload[SD_CLAIMS_KEY] = CommitmentTree
            /\ ReleasePayload[SD_CLAIMS_KEY] = ReleaseTree
            /\ SubTreeOf(released.disclosed_claims, issued.user_claims) )
          => /\ verified.out.status = "ok"
             /\ verified.out.claims
                  = Restrict(issued.user_claims, released.disclosed_claims)

\* the audience equal, the nonce not
C5_Witness ==
    /\ Verified /\ SixParts /\ SdPasses /\ deserializes(PresentedRelease)
    /\ Bound /\ ~ArgumentsRefused /\ HolderPasses
    /\ "aud" \in DOMAIN ReleasePayload
    /\ Some(ReleasePayload["aud"]) = verified.expected_aud
    /\ Some(ReleasePayload["nonce"]) # verified.expected_nonce
    /\ verified.out.status = "InvalidNonce"

\* C6: whenever the presentation does not split into exactly 6 segments the
\* outcome is MalformedPresentation, whatever the other arguments, and no
\* token is parsed or verified.
C6_SegmentsFirst ==
    (Verified /\ ~SixParts)
    => /\ verified.out.status = "MalformedPresentation"
       /\ NoTokenExamined

\* C6 as amended: the argument check comes first. A presentation that does not
\* split into exactly 6 segments gives InvalidArguments when a
\* holder_public_key comes without a non-empty audience or nonce, and
\* MalformedPresentation otherwise; no token is parsed or verified.
C6_SegmentsAfterArguments ==
    (Verified /\ ~SixParts)
    => /\ verified.out.status =
            IF ArgumentsRefused THEN "InvalidArguments" ELSE "MalformedPresentation"
       /\ NoTokenExamined

\* seven segments and arguments that pass
C6_Witness ==
    /\ Verified
    /\ Len(Parts) = 7
    /\ Bound /\ ~ArgumentsRefused
    /\ verified.out.status = "MalformedPresentation"

\* C7: with a holder_public_key and no audience or no nonce verify fails with
\* InvalidArguments before any signature is verified; with both supplied (any
\* value, the empty string too) or no holder_public_key it never does.
C7_InvalidArguments ==
    Verified
    => /\ ( /\ Bound
            /\ verified.expected_aud = None \/ verified.expected_nonce = None )
          => /\ verified.out.status = "InvalidArguments"
             /\ verified.out.stages = <<"arguments">>
       /\ ( \/ ~Bound
            \/ verified.expected_aud # None /\ verified.expected_nonce # None )
          => verified.out.status # "InvalidArguments"

\* C7 as amended: an empty string counts as not supplied. With a
\* holder_public_key and no audience or no nonce, or an empty one, verify fails
\* with InvalidArguments before any signature is verified; with both supplied
\* and not empty, or no holder_public_key, it never does.
C7_InvalidArgumentsUnlessNonEmpty ==
    Verified
    => /\ ArgumentsRefused
          => /\ verified.out.status = "InvalidArguments"
             /\ verified.out.stages = <<"arguments">>
       /\ ~ArgumentsRefused => verified.out.status # "InvalidArguments"

\* an empty audience beside a nonce
C7_Witness ==
    /\ Verified
    /\ Bound
    /\ verified.expected_aud = Some("")
    /\ verified.expected_nonce = Some(Nonce)
    /\ verified.out.status = "InvalidArguments"

\* C8: create_release_jwt fails with StructureMismatch, and builds no payload
\* and no token, when chosen_claims has a leaf at a path where the container
\* holds no raw entry.
C8_StrayKeyRefused ==
    ( /\ Released
      /\ \E q \in LeafPaths(released.disclosed_claims) :
            ~IsLeaf(At(DisclosureTree, q)) )
    => /\ released.out.status = "StructureMismatch"
       /\ "sd_jwt_release_payload" \notin DOMAIN released.out
       /\ "serialized_sd_jwt_release" \notin DOMAIN released.out

\* C9: for every issued_at >= 0 passed the payload's iat is that issued_at;
\* its exp is issued_at + 900 when expires_at is not passed and the expires_at
\* passed (>= 0) otherwise.
C9_Timestamps ==
    Issued
    => /\ issued.iat # None => issued.out.sd_jwt_payload["iat"] = issued.iat[1]
       /\ (issued.iat # None /\ issued.exp = None)
            => issued.out.sd_jwt_payload["exp"] = issued.iat[1] + 900
       /\ issued.exp # None => issued.out.sd_jwt_payload["exp"] = issued.exp[1]

====
